---- MODULE Spec2Model ----
(***************************************************************************)
(* A model of crushtileset.py: the layer codecs of class Map, the          *)
(* used-tile discovery and index remapping, the atlas size and tile        *)
(* placement of class Tileset, and the sequence of steps of do_crushing()  *)
(* as run by main().                                                       *)
(*                                                                         *)
(* Text (an XML element's .text, a str) is a sequence of one-character     *)
(* strings; bytes are a sequence of integers 0..255; a layer is a sequence *)
(* of rows, each a sequence of tile indices.                               *)
(***************************************************************************)
EXTENDS Integers, Sequences, FiniteSets, TLC

VARIABLES
    pc,              \* position of the run inside main()/do_crushing()
    input_doc,       \* the map document as parsed from the input file (never changed)
    input_map,       \* Map: the map document, rewritten in place by Map.crush
    input_tileset,   \* Tileset: the tileset document, rewritten in place by Tileset.crush
    used_tiles,      \* do_crushing's used_tiles
    new_image_size,  \* do_crushing's new_image_size
    output_texture,  \* do_crushing's output_texture: the tiles pasted into it
    crush_pngs,      \* the --pngcrush argument, once it has been read
    files,           \* the three output paths and their .bak files
    error,           \* the exception that ended the run, if any
    unit             \* a single function under test: its inputs and outputs

vars == <<pc, input_doc, input_map, input_tileset, used_tiles, new_image_size,
          output_texture, crush_pngs, files, error, unit>>

runVars == <<pc, input_doc, input_map, input_tileset, used_tiles, new_image_size,
             output_texture, crush_pngs, files, error>>

None == "None"

(***************************************************************************)
(* Bounds of the model.                                                    *)
(***************************************************************************)
MaxTile == 2        \* tile indices of a layer under test are 0..MaxTile, or BigGid
MaxCells == 3       \* a layer under test has at most this many cells
MapTile == 2        \* tile indices of a crushed map are 0..MapTile
MapCells == 2       \* a crushed map has at most this many cells, all layers together
MaxTilesets == 2    \* <tileset> elements in a map
MaxIndex == 5       \* tile indices of a used-tile list under test are 0..MaxIndex
MaxCount == 17      \* tile counts handed to lookup_size
MaxEdge == 4        \* tile widths and heights handed to lookup_size
MaxColumns == 3     \* columns of a tileset whose texture is repacked

\* A tile index whose four little-endian bytes all differ.
BigGid == 1 + 2 * 256 + 3 * 65536 + 4 * 16777216

(***************************************************************************)
(* Python built-ins used by the codecs.                                    *)
(***************************************************************************)
Digits == <<"0", "1", "2", "3", "4", "5", "6", "7", "8", "9">>

Whitespace == {" ", "\n", "\t", "\r"}

RECURSIVE str(_)
str(n) ==
    IF n < 10 THEN <<Digits[n + 1]>>
    ELSE str(n \div 10) \o <<Digits[(n % 10) + 1]>>

DigitValue(c) == (CHOOSE i \in 1..10 : Digits[i] = c) - 1

RECURSIVE int(_)
int(tok) ==
    IF Len(tok) = 1 THEN DigitValue(tok[1])
    ELSE int(SubSeq(tok, 1, Len(tok) - 1)) * 10 + DigitValue(tok[Len(tok)])

RECURSIVE SplitFrom(_, _, _, _)
SplitFrom(s, seps, i, cur) ==
    IF i > Len(s) THEN <<cur>>
    ELSE IF s[i] \in seps THEN <<cur>> \o SplitFrom(s, seps, i + 1, <<>>)
    ELSE SplitFrom(s, seps, i + 1, Append(cur, s[i]))

\* str.split(): split on runs of whitespace, no empty strings.
split(s) == SelectSeq(SplitFrom(s, Whitespace, 1, <<>>), LAMBDA t : t # <<>>)

\* str.split(','): split on every comma, empty strings kept.
split_comma(s) == SplitFrom(s, {","}, 1, <<>>)

RECURSIVE join(_, _)
join(sep, parts) ==
    IF Len(parts) = 0 THEN <<>>
    ELSE IF Len(parts) = 1 THEN parts[1]
    ELSE parts[1] \o sep \o join(sep, Tail(parts))

RECURSIVE Concat(_)
Concat(parts) == IF Len(parts) = 0 THEN <<>> ELSE parts[1] \o Concat(Tail(parts))

(***************************************************************************)
(* struct.pack('<I...') and struct.iter_unpack('<I').                      *)
(***************************************************************************)
pack_I_big_endian(v) ==
    <<(v \div 16777216) % 256, (v \div 65536) % 256, (v \div 256) % 256, v % 256>>

pack_I(v) == <<v % 256, (v \div 256) % 256, (v \div 65536) % 256, (v \div 16777216) % 256>>

struct_pack(row) == Concat([i \in 1..Len(row) |-> pack_I(row[i])])

struct_iter_unpack(data) ==
    [i \in 1..(Len(data) \div 4) |->
        data[4 * i - 3] + 256 * data[4 * i - 2] + 65536 * data[4 * i - 1]
            + 16777216 * data[4 * i]]

(***************************************************************************)
(* base64.b64encode and base64.b64decode.                                  *)
(***************************************************************************)
B64 == <<"A", "B", "C", "D", "E", "F", "G", "H", "I", "J", "K", "L", "M",
         "N", "O", "P", "Q", "R", "S", "T", "U", "V", "W", "X", "Y", "Z",
         "a", "b", "c", "d", "e", "f", "g", "h", "i", "j", "k", "l", "m",
         "n", "o", "p", "q", "r", "s", "t", "u", "v", "w", "x", "y", "z",
         "0", "1", "2", "3", "4", "5", "6", "7", "8", "9", "+", "/">>

B64Value(c) == (CHOOSE i \in 1..64 : B64[i] = c) - 1

RECURSIVE b64encode(_)
b64encode(data) ==
    IF Len(data) = 0 THEN <<>>
    ELSE IF Len(data) = 1 THEN
        <<B64[(data[1] \div 4) + 1], B64[(data[1] % 4) * 16 + 1], "=", "=">>
    ELSE IF Len(data) = 2 THEN
        <<B64[(data[1] \div 4) + 1],
          B64[(data[1] % 4) * 16 + (data[2] \div 16) + 1],
          B64[(data[2] % 16) * 4 + 1], "=">>
    ELSE
        <<B64[(data[1] \div 4) + 1],
          B64[(data[1] % 4) * 16 + (data[2] \div 16) + 1],
          B64[(data[2] % 16) * 4 + (data[3] \div 64) + 1],
          B64[(data[3] % 64) + 1]>> \o b64encode(SubSeq(data, 4, Len(data)))

RECURSIVE b64quads(_)
b64quads(t) ==
    IF Len(t) < 4 THEN <<>>
    ELSE
        LET a == B64Value(t[1])
            b == B64Value(t[2])
            head == IF t[3] = "=" THEN <<a * 4 + (b \div 16)>>
                    ELSE IF t[4] = "=" THEN
                        <<a * 4 + (b \div 16), (b % 16) * 16 + (B64Value(t[3]) \div 4)>>
                    ELSE
                        <<a * 4 + (b \div 16), (b % 16) * 16 + (B64Value(t[3]) \div 4),
                          (B64Value(t[3]) % 4) * 64 + B64Value(t[4])>>
        IN  head \o b64quads(SubSeq(t, 5, Len(t)))

\* Characters outside the alphabet (the white space around an element's text)
\* are discarded before decoding.
b64decode(t) ==
    b64quads(SelectSeq(t, LAMBDA c : c = "=" \/ \E i \in 1..64 : B64[i] = c))

(***************************************************************************)
(* zlib, gzip and zstandard: lossless stream formats.  A stream is its     *)
(* format's magic bytes followed by the stored payload.                    *)
(***************************************************************************)
Magic(kind) ==
    CASE kind = "zlib" -> <<120, 218>>
      [] kind = "gzip" -> <<31, 139, 8>>
      [] kind = "zstd" -> <<40, 181, 47, 253>>

compress(kind, data) == Magic(kind) \o data

decompress(kind, data) == SubSeq(data, Len(Magic(kind)) + 1, Len(data))

(***************************************************************************)
(* class Map: the layer codecs.  A layer's format is the encoding and      *)
(* compression attributes of its <data> element.                           *)
(***************************************************************************)
Format(e, c) == [encoding |-> e, compression |-> c]

SupportedFormats ==
    {Format("csv", "none"), Format("base64", "none"), Format("base64", "zlib"),
     Format("base64", "gzip"), Format("base64", "zstd")}

\* One compression and one encoding that the script does not know.
Formats == SupportedFormats \cup {Format("base64", "lzma"), Format("json", "none")}

decode_csv(text) ==
    LET lines == split(text)
    IN  [i \in 1..Len(lines) |->
            LET tokens == SelectSeq(split_comma(lines[i]), LAMBDA c : c # <<>>)
            IN  [j \in 1..Len(tokens) |-> int(tokens[j])]]

decode_base64(text) == <<struct_iter_unpack(b64decode(text))>>

decode_base64zlib(text) == <<struct_iter_unpack(decompress("zlib", b64decode(text)))>>

decode_base64gzip(text) == <<struct_iter_unpack(decompress("gzip", b64decode(text)))>>

decode_base64zstd(text) == <<struct_iter_unpack(decompress("zstd", b64decode(text)))>>

encode_csv_newline_only(layer) ==
    join(<<"\n">>, [i \in 1..Len(layer) |->
        join(<<",">>, [j \in 1..Len(layer[i]) |-> str(layer[i][j])])]) \o <<"\n">>

encode_csv(layer) ==
    LET lines == [i \in 1..Len(layer) |->
                    join(<<",">>, [j \in 1..Len(layer[i]) |-> str(layer[i][j])])]
    IN  join(<<",", "\n">>, lines) \o <<"\n">>

encode_base64(layer) == b64encode(struct_pack(layer[1]))

encode_base64zlib(layer) == b64encode(compress("zlib", struct_pack(layer[1])))

encode_base64gzip(layer) == b64encode(compress("gzip", struct_pack(layer[1])))

encode_base64zstd(layer) == b64encode(compress("zstd", struct_pack(layer[1])))

\* The dispatch of Map.get_data on one layer's <data> element; the
\* RuntimeError it raises for a format it does not know is FormatError.
FormatError(fmt) ==
    IF fmt.encoding = "csv" THEN None
    ELSE IF fmt.encoding = "base64" THEN
        IF fmt.compression \in {"none", "zlib", "gzip", "zstd"} THEN None
        ELSE "RuntimeError: unsupported compression"
    ELSE "RuntimeError: unsupported encoding"

decode_layer(fmt, text) ==
    IF fmt.encoding = "csv" THEN decode_csv(text)
    ELSE CASE fmt.compression = "none" -> decode_base64(text)
           [] fmt.compression = "zlib" -> decode_base64zlib(text)
           [] fmt.compression = "gzip" -> decode_base64gzip(text)
           [] fmt.compression = "zstd" -> decode_base64zstd(text)

\* The dispatch of Map.set_data on one layer's <data> element.
encode_layer(fmt, layer) ==
    IF fmt.encoding = "csv" THEN encode_csv(layer)
    ELSE CASE fmt.compression = "none" -> encode_base64(layer)
           [] fmt.compression = "zlib" -> encode_base64zlib(layer)
           [] fmt.compression = "gzip" -> encode_base64gzip(layer)
           [] fmt.compression = "zstd" -> encode_base64zstd(layer)

(***************************************************************************)
(* Map.discover_used, Map.crush and Map.set_data.  data is Map.get_data's  *)
(* result: the decoded layers, in the order of the document.               *)
(***************************************************************************)
RECURSIVE AppendNew(_, _)
AppendNew(used, cells) ==
    IF Len(cells) = 0 THEN used
    ELSE AppendNew(IF \E i \in 1..Len(used) : used[i] = cells[1] THEN used
                   ELSE Append(used, cells[1]),
                   Tail(cells))

discover_used(data) ==
    SortSeq(AppendNew(<<>>, Concat([k \in 1..Len(data) |-> Concat(data[k])])),
            LAMBDA a, b : a < b)

Assign(mapping, key, value) ==
    [k \in (DOMAIN mapping) \cup {key} |-> IF k = key THEN value ELSE mapping[k]]

RECURSIVE MappingLoop(_, _, _, _)
MappingLoop(used, i, idx, mapping) ==
    IF i > Len(used) THEN mapping
    ELSE MappingLoop(used, i + 1, idx + 1, Assign(mapping, used[i], idx))

crush_mapping_from_zero(used) == MappingLoop(used, 1, 0, <<>>)

\* The mapping built by Map.crush: idx starts at 1.
crush_mapping(used) == MappingLoop(used, 1, 1, <<>>)

\* Map.set_data's rewrite of one decoded layer.
remap_layer(layer, mapping) ==
    [y \in 1..Len(layer) |-> [x \in 1..Len(layer[y]) |-> mapping[layer[y][x]]]]

(***************************************************************************)
(* lookup_size.  math.ceil(math.sqrt(n)) is the least k with k * k >= n    *)
(* (for every n a double holds exactly).                                   *)
(***************************************************************************)
ceil_sqrt(n) == CHOOSE k \in 0..n : k * k >= n /\ \A j \in 0..(k - 1) : j * j < n

RECURSIVE ShiftWhileLess(_, _)
ShiftWhileLess(size, texture_size) ==
    IF size < texture_size THEN ShiftWhileLess(size * 2, texture_size) ELSE size

RECURSIVE ShiftWhileNotGreater(_, _)
ShiftWhileNotGreater(size, texture_size) ==
    IF size <= texture_size THEN ShiftWhileNotGreater(size * 2, texture_size) ELSE size

lookup_size_not_greater(num_tiles, tile_width, tile_height) ==
    ShiftWhileNotGreater(1, ceil_sqrt(num_tiles) * tile_width)

\* Called with tile_width = tile_height; see SizeError for the other case.
lookup_size(num_tiles, tile_width, tile_height) ==
    ShiftWhileLess(1, ceil_sqrt(num_tiles) * tile_width)

SizeError(tile_width, tile_height) ==
    IF tile_width # tile_height THEN "RuntimeError: tile width must match tile height"
    ELSE None

(***************************************************************************)
(* class Tileset.  ts is the Tileset object: width, height and columns as  *)
(* set by __init__, and the document's other parts.                        *)
(***************************************************************************)
find_tile(ts, index) ==
    <<((index - 1) % ts.columns) * ts.width, ((index - 1) \div ts.columns) * ts.height>>

\* The loop of create_output_texture: one record for each tile pasted.
RECURSIVE PasteLoop(_, _, _, _, _, _)
PasteLoop(ts, used, i, dx, dy, image_size) ==
    IF i > Len(used) THEN <<>>
    ELSE
        LET t == find_tile(ts, used[i])
            paste == [item |-> used[i],
                      region |-> <<t[1], t[2], t[1] + ts.width, t[2] + ts.height>>,
                      target |-> <<dx, dy, dx + ts.width, dy + ts.height>>]
            nx == dx + ts.width
        IN  <<paste>> \o
            (IF nx + ts.width > image_size
             THEN PasteLoop(ts, used, i + 1, 0, dy + ts.height, image_size)
             ELSE PasteLoop(ts, used, i + 1, nx, dy, image_size))

RECURSIVE PasteLoopWrapAtEdge(_, _, _, _, _, _)
PasteLoopWrapAtEdge(ts, used, i, dx, dy, image_size) ==
    IF i > Len(used) THEN <<>>
    ELSE
        LET t == find_tile(ts, used[i])
            paste == [item |-> used[i],
                      region |-> <<t[1], t[2], t[1] + ts.width, t[2] + ts.height>>,
                      target |-> <<dx, dy, dx + ts.width, dy + ts.height>>]
            nx == dx + ts.width
        IN  <<paste>> \o
            (IF nx >= image_size
             THEN PasteLoopWrapAtEdge(ts, used, i + 1, 0, dy + ts.height, image_size)
             ELSE PasteLoopWrapAtEdge(ts, used, i + 1, nx, dy, image_size))

create_output_texture_wrap_at_edge(ts, used, image_size) ==
    [size |-> <<image_size, image_size>>,
     pastes |-> PasteLoopWrapAtEdge(ts, used, 1, 0, 0, image_size)]

create_output_texture(ts, used, image_size) ==
    [size |-> <<image_size, image_size>>,
     pastes |-> PasteLoop(ts, used, 1, 0, 0, image_size)]

\* Tileset.remove_terrains: the <tile> records left, under their new ids.
\* used_tiles.index(tile_id) is the first position holding tile_id.
remove_terrains_tiles(ts, used) ==
    {(CHOOSE i \in 1..Len(used) : used[i] = id /\ \A j \in 1..(i - 1) : used[j] # id)
        : id \in {t \in ts.tiles : \E i \in 1..Len(used) : used[i] = t}}

\* root.remove(None), when the document has no <terraintypes>.
TilesetCrushError(ts) ==
    IF ts.terraintypes THEN None ELSE "TypeError: remove() argument is None"

\* Tileset.crush: the document is rewritten; the object's own width, height
\* and columns are not.
tileset_crush(ts, used, image_size, output_texture_filename, output_tileset_filename) ==
    [ts EXCEPT !.terraintypes = FALSE,
               !.tiles = remove_terrains_tiles(ts, used),
               !.attrib_columns = image_size \div ts.width,
               !.image = [source |-> output_texture_filename,
                          width |-> image_size, height |-> image_size],
               !.tilecount = Len(used),
               !.name = "out"]

(***************************************************************************)
(* class Map: the document.  layers holds each layer's <data> text.        *)
(***************************************************************************)
DataError(doc) == IF Len(doc.layers) = 0 THEN None ELSE FormatError(doc.format)

get_data(doc) == [k \in 1..Len(doc.layers) |-> decode_layer(doc.format, doc.layers[k])]

set_data(doc, mapping) ==
    [doc EXCEPT !.layers =
        [k \in 1..Len(doc.layers) |->
            encode_layer(doc.format, remap_layer(get_data(doc)[k], mapping))]]

map_crush(doc, used, output_tileset_filename) ==
    set_data([doc EXCEPT !.source = output_tileset_filename], crush_mapping(used))

\* Map.get_tileset_filename.
TilesetFilenameError(doc) ==
    IF doc.tilesets > 1 THEN "RuntimeError: only single tileset maps are supported"
    ELSE IF doc.tilesets = 0 THEN "IndexError: list index out of range"
    ELSE None

(***************************************************************************)
(* Layers to run the codecs on.                                            *)
(***************************************************************************)
Shapes(maxCells) ==
    {s \in (1..maxCells) \X (1..maxCells) : s[1] * s[2] <= maxCells}

\* Every layer of height rows by width columns over the given tile indices.
LayersOf(shape, tiles) == [1..shape[1] -> [1..shape[2] -> tiles]]

Layers(maxCells, tiles) == UNION {LayersOf(s, tiles) : s \in Shapes(maxCells)}

CodecTiles == (0..MaxTile) \cup {BigGid}

ScenarioCText ==
    <<"1", ",", "2", ",", "3", ",", "\n", "4", ",", "5", ",", "6", ",", "\n">>

\* A CSV layer as the map editor writes it: a line break first, then the rows.
EditorCsv(layer) == <<"\n">> \o encode_csv(layer)

(***************************************************************************)
(* The codecs on their own: a layer is encoded and decoded again, or a     *)
(* text is decoded and encoded again.                                      *)
(***************************************************************************)
CodecUnit(fmt, start, orig) ==
    [fn |-> "codec", format |-> fmt, start |-> start, orig |-> orig,
     layer |-> IF start = "layer" THEN orig ELSE None,
     text |-> IF start = "text" THEN orig ELSE None,
     have |-> start, steps |-> 0, raised |-> None]

RunIdle ==
    /\ pc = "idle"
    /\ input_doc = None
    /\ input_map = None
    /\ input_tileset = None
    /\ used_tiles = None
    /\ new_image_size = None
    /\ output_texture = None
    /\ crush_pngs = None
    /\ files = None
    /\ error = None

CodecInit ==
    /\ RunIdle
    /\ \/ \E fmt \in Formats, layer \in Layers(MaxCells, CodecTiles) :
            unit = CodecUnit(fmt, "layer", layer)
       \/ unit = CodecUnit(Format("csv", "none"), "text", ScenarioCText)
       \/ \E layer \in Layers(MaxCells, CodecTiles) :
            unit = CodecUnit(Format("csv", "none"), "text", EditorCsv(layer))

\* Map.set_data's encoding of one layer.
EncodeLayer ==
    /\ unit.fn = "codec" /\ unit.have = "layer" /\ unit.steps < 2
    /\ FormatError(unit.format) = None
    /\ unit' = [unit EXCEPT !.text = encode_layer(unit.format, unit.layer),
                            !.have = "text", !.steps = @ + 1]
    /\ UNCHANGED runVars

\* Map.get_data's decoding of one layer.
DecodeLayer ==
    /\ unit.fn = "codec" /\ unit.have = "text" /\ unit.steps < 2
    /\ FormatError(unit.format) = None
    /\ unit' = [unit EXCEPT !.layer = decode_layer(unit.format, unit.text),
                            !.have = "layer", !.steps = @ + 1]
    /\ UNCHANGED runVars

\* Either dispatch on a format the script does not know.
CodecRaise ==
    /\ unit.fn = "codec" /\ unit.raised = None
    /\ FormatError(unit.format) # None
    /\ unit' = [unit EXCEPT !.raised = FormatError(unit.format)]
    /\ UNCHANGED runVars

CodecNext == EncodeLayer \/ DecodeLayer \/ CodecRaise

CodecSpec == CodecInit /\ [][CodecNext]_vars

(***************************************************************************)
(* The codecs: claims.                                                     *)
(***************************************************************************)
EncodedThenDecoded == unit.fn = "codec" /\ unit.start = "layer" /\ unit.steps = 2

\* C4 as stated: for every supported encoding and every layer, also one of
\* several rows, decoding the encoded layer gives the layer again.
C4_RoundTripEveryLayer == EncodedThenDecoded => unit.layer = unit.orig

\* C4 as amended: decoding the encoded layer gives the layer again for csv
\* (any number of rows) and, for base64 with any of its compressions, for a
\* layer of one row; of a layer of several rows a base64 encoding keeps the
\* first row alone.
C4_RoundTrip ==
    EncodedThenDecoded =>
        /\ (unit.format.encoding = "csv" \/ Len(unit.orig) = 1) => unit.layer = unit.orig
        /\ unit.format.encoding = "base64" => unit.layer = <<unit.orig[1]>>

C4_Witness ==
    /\ EncodedThenDecoded
    /\ unit.format = Format("base64", "gzip")
    /\ unit.orig = <<(<<BigGid, 0, 2>>)>>
    /\ unit.layer = unit.orig

Count(s, c) == Cardinality({i \in 1..Len(s) : s[i] = c})

RECURSIVE SumLens(_)
SumLens(rows) == IF Len(rows) = 0 THEN 0 ELSE Len(rows[1]) + SumLens(Tail(rows))

CsvEncoded ==
    /\ unit.fn = "codec" /\ unit.format.encoding = "csv"
    /\ unit.have = "text" /\ unit.steps >= 1

ScenarioC == unit.fn = "codec" /\ unit.start = "text" /\ unit.orig = ScenarioCText

ScenarioCLayer == <<(<<1, 2, 3>>), (<<4, 5, 6>>)>>

\* C7 as stated: CSV encode joins the rows with a newline only, so that no
\* row ends in a comma, and appends one newline; "1,2,3,\n4,5,6,\n" decodes
\* to [[1,2,3],[4,5,6]], which encodes to "1,2,3\n4,5,6\n".
C7_RowsJoinedByNewlineOnly ==
    /\ CsvEncoded =>
        /\ \A i \in 2..Len(unit.text) : unit.text[i] = "\n" => unit.text[i - 1] # ","
        /\ unit.text[Len(unit.text)] = "\n"
    /\ (ScenarioC /\ unit.steps >= 1) => unit.layer = ScenarioCLayer
    /\ (ScenarioC /\ unit.steps = 2) =>
        unit.text = <<"1", ",", "2", ",", "3", "\n", "4", ",", "5", ",", "6", "\n">>

\* C7 as amended: CSV encode joins each row's integers with commas and the
\* rows with a comma and a newline, so that every row but the last ends in
\* a comma, and appends one newline after the last row;
\* "1,2,3,\n4,5,6,\n" decodes to [[1,2,3],[4,5,6]], which encodes to
\* "1,2,3,\n4,5,6\n".
C7_RowsJoinedByCommaNewline ==
    /\ CsvEncoded =>
        LET t == unit.text
            n == Len(t)
        IN  /\ t[n] = "\n" /\ t[n - 1] \notin {",", "\n"}
            /\ \A i \in 2..(n - 1) : t[i] = "\n" => t[i - 1] = ","
            /\ \A i \in 1..(n - 1) : t[i] = "," => t[i + 1] # ","
            /\ Count(t, "\n") = Len(unit.layer)
            /\ Count(t, ",") = SumLens(unit.layer) - 1
    /\ (ScenarioC /\ unit.steps >= 1) => unit.layer = ScenarioCLayer
    /\ (ScenarioC /\ unit.steps = 2) =>
        unit.text = <<"1", ",", "2", ",", "3", ",", "\n", "4", ",", "5", ",", "6", "\n">>

C7_Witness == ScenarioC /\ unit.steps = 2 /\ unit.have = "text" /\ Len(unit.layer) = 2

(***************************************************************************)
(* Used-tile lists as Map.discover_used returns them: sorted, no value     *)
(* twice.                                                                  *)
(***************************************************************************)
RECURSIVE SetToSortedSeq(_)
SetToSortedSeq(S) ==
    IF S = {} THEN <<>>
    ELSE LET m == CHOOSE x \in S : \A y \in S : x <= y
         IN  <<m>> \o SetToSortedSeq(S \ {m})

UsedLists == {SetToSortedSeq(S) : S \in SUBSET (0..MaxIndex)}

Range(f) == {f[x] : x \in DOMAIN f}

(***************************************************************************)
(* The mapping of Map.crush on its own.                                    *)
(***************************************************************************)
MappingInit ==
    /\ RunIdle
    /\ \E used \in UsedLists : unit = [fn |-> "mapping", used |-> used, mapping |-> None, done |-> FALSE]

BuildMapping ==
    /\ unit.fn = "mapping" /\ ~unit.done
    /\ unit' = [unit EXCEPT !.mapping = crush_mapping(unit.used), !.done = TRUE]
    /\ UNCHANGED runVars

MappingNext == BuildMapping

MappingSpec == MappingInit /\ [][MappingNext]_vars

MappingBuilt == unit.fn = "mapping" /\ unit.done

\* C3: for a used-tile list that is sorted, without duplicates and without
\* 0, the mapping of Map.crush is total on the list, injective, has range
\* 1..N, preserves the order and maps the least element to 1.
C3_MappingIsOrderPreservingBijection ==
    (MappingBuilt /\ \A i \in 1..Len(unit.used) : unit.used[i] # 0) =>
        LET U == Range(unit.used)
            m == unit.mapping
        IN  /\ DOMAIN m = U
            /\ \A a, b \in U : m[a] = m[b] => a = b
            /\ Range(m) = 1..Len(unit.used)
            /\ \A a, b \in U : a < b => m[a] < m[b]
            /\ \A a \in U : (\A b \in U : a <= b) => m[a] = 1

C3_Witness ==
    /\ MappingBuilt
    /\ unit.used = <<2, 3, 5>>
    /\ unit.mapping[2] = 1 /\ unit.mapping[5] = 3

(***************************************************************************)
(* lookup_size on its own.                                                 *)
(***************************************************************************)
SizeInit ==
    /\ RunIdle
    /\ \E n \in 1..MaxCount, w \in 1..MaxEdge, h \in 1..MaxEdge :
        unit = [fn |-> "lookup_size", num_tiles |-> n, tile_width |-> w,
                tile_height |-> h, size |-> None, raised |-> None, done |-> FALSE]

LookupSizeReturn ==
    /\ unit.fn = "lookup_size" /\ ~unit.done
    /\ SizeError(unit.tile_width, unit.tile_height) = None
    /\ unit' = [unit EXCEPT
            !.size = lookup_size(unit.num_tiles, unit.tile_width, unit.tile_height),
            !.done = TRUE]
    /\ UNCHANGED runVars

LookupSizeRaise ==
    /\ unit.fn = "lookup_size" /\ ~unit.done
    /\ SizeError(unit.tile_width, unit.tile_height) # None
    /\ unit' = [unit EXCEPT !.raised = SizeError(unit.tile_width, unit.tile_height),
                            !.done = TRUE]
    /\ UNCHANGED runVars

SizeNext == LookupSizeReturn \/ LookupSizeRaise

SizeSpec == SizeInit /\ [][SizeNext]_vars

IsPowerOfTwo(x) == \E e \in 0..30 : 2 ^ e = x

\* C5: for n >= 1 tiles of edge t >= 1, lookup_size(n, t, t) is a power of
\* two, is at least ceil(sqrt(n)) * t, and no smaller power of two is.
C5_SmallestPowerOfTwo ==
    (unit.fn = "lookup_size" /\ unit.done /\ unit.raised = None) =>
        LET n == unit.num_tiles
            t == unit.tile_width
            edge == CHOOSE k \in 1..n : (k - 1) * (k - 1) < n /\ n <= k * k
        IN  /\ IsPowerOfTwo(unit.size)
            /\ unit.size >= edge * t
            /\ \A e \in 0..30 : 2 ^ e >= edge * t => unit.size <= 2 ^ e

\* n = 4 is a perfect square and 2 * 4 = 8 is itself a power of two.
C5_Witness ==
    /\ unit.fn = "lookup_size" /\ unit.done /\ unit.raised = None /\ unit.size = 8
    /\ unit.num_tiles = 4 /\ unit.tile_width = 4

(***************************************************************************)
(* The atlas: lookup_size and Tileset.create_output_texture as do_crushing *)
(* calls them, on a used-tile list and a tileset of square tiles.          *)
(***************************************************************************)
\* A tileset of c columns and c rows with a record for each tile.
TilesetFile(w, h, c, terraintypes) ==
    [width |-> w, height |-> h, columns |-> c, attrib_columns |-> c,
     tilecount |-> c * c, name |-> "in",
     image |-> [source |-> "in.png", width |-> c * w, height |-> c * h],
     terraintypes |-> terraintypes, tiles |-> 0..(c * c - 1)]

AtlasUnit(ts, used) ==
    [fn |-> "atlas", tileset |-> ts, used |-> used, size |-> None,
     texture |-> None, stage |-> "lookup_size"]

AtlasInit ==
    /\ RunIdle
    /\ \/ \E used \in UsedLists, t \in 1..MaxEdge, c \in 1..MaxColumns :
            unit = AtlasUnit(TilesetFile(t, t, c, TRUE), used)
       \/ unit = AtlasUnit(TilesetFile(16, 16, 10, TRUE), <<7, 42>>)

AtlasLookupSize ==
    /\ unit.fn = "atlas" /\ unit.stage = "lookup_size"
    /\ unit' = [unit EXCEPT
            !.size = lookup_size(Len(unit.used), unit.tileset.width, unit.tileset.height),
            !.stage = "create_output_texture"]
    /\ UNCHANGED runVars

AtlasCreateTexture ==
    /\ unit.fn = "atlas" /\ unit.stage = "create_output_texture"
    /\ unit' = [unit EXCEPT
            !.texture = create_output_texture(unit.tileset, unit.used, unit.size),
            !.stage = "tileset_crush"]
    /\ UNCHANGED runVars

AtlasTilesetCrush ==
    /\ unit.fn = "atlas" /\ unit.stage = "tileset_crush"
    /\ unit' = [unit EXCEPT
            !.tileset = tileset_crush(unit.tileset, unit.used, unit.size, "out.png", "out.tsx"),
            !.stage = "done"]
    /\ UNCHANGED runVars

AtlasNext == AtlasLookupSize \/ AtlasCreateTexture \/ AtlasTilesetCrush

AtlasSpec == AtlasInit /\ [][AtlasNext]_vars

AtlasBuilt == unit.fn = "atlas" /\ unit.stage = "done"

\* C10: for a used-tile list of n >= 1 nonzero indices and size =
\* lookup_size(n, t, t), the k-th tile of the list, old, is copied from
\* pixel (((old-1) mod columns) * t, ((old-1) div columns) * t) to pixel
\* (((k-1) mod C) * t, ((k-1) div C) * t), C = size div t; every
\* destination cell lies inside the size x size atlas and no two tiles
\* share one; the destination is the cell that the rewritten tileset, of
\* C columns, gives to index k.  {7, 42} with t = 16 and columns = 10 gives
\* size 32, tile 7 at (0,0) and tile 42 at (16,0).
C10_TilesPlacedRowMajor ==
    /\ (/\ AtlasBuilt
        /\ Len(unit.used) >= 1
        /\ \A i \in 1..Len(unit.used) : unit.used[i] # 0) =>
        LET t == unit.tileset.width
            columns == unit.tileset.columns
            size == unit.size
            C == size \div t
            pastes == unit.texture.pastes
        IN  /\ unit.texture.size = <<size, size>>
            /\ Len(pastes) = Len(unit.used)
            /\ \A k \in 1..Len(pastes) :
                LET old == unit.used[k]
                    sx == ((old - 1) % columns) * t
                    sy == ((old - 1) \div columns) * t
                    tx == ((k - 1) % C) * t
                    ty == ((k - 1) \div C) * t
                    rewritten == [width |-> t, height |-> t,
                                  columns |-> unit.tileset.attrib_columns]
                IN  /\ pastes[k].item = old
                    /\ unit.tileset.attrib_columns = C
                    /\ find_tile(rewritten, k) = <<tx, ty>>
                    /\ pastes[k].region = <<sx, sy, sx + t, sy + t>>
                    /\ pastes[k].target = <<tx, ty, tx + t, ty + t>>
                    /\ pastes[k].target[1] >= 0 /\ pastes[k].target[2] >= 0
                    /\ pastes[k].target[3] <= size /\ pastes[k].target[4] <= size
            /\ \A j, k \in 1..Len(pastes) : pastes[j].target = pastes[k].target => j = k
    /\ (AtlasBuilt /\ unit.used = <<7, 42>> /\ unit.tileset.columns = 10) =>
        /\ unit.size = 32
        /\ unit.texture.pastes[1].target = <<0, 0, 16, 16>>
        /\ unit.texture.pastes[2].target = <<16, 0, 32, 16>>

\* Three tiles of edge 3 in an atlas of 8 pixels: the third starts the
\* second row.
C10_Witness ==
    /\ AtlasBuilt
    /\ unit.used = <<1, 3, 4>> /\ unit.tileset.width = 3 /\ unit.tileset.columns = 2
    /\ unit.size = 8
    /\ unit.texture.pastes[3].target = <<0, 3, 3, 6>>

(***************************************************************************)
(* A run of main(): the input files.                                       *)
(***************************************************************************)
Cells(layer) == SumLens(layer)

\* Every sequence of layers with at most budget cells in all.
RECURSIVE LayerSeqs(_)
LayerSeqs(budget) ==
    {<<>>} \cup
    UNION {{<<layer>> \o rest : rest \in LayerSeqs(budget - Cells(layer))}
            : layer \in Layers(budget, 0..MapTile)}

\* A layer's <data> text as the map editor writes it: the rows of a CSV
\* layer, or all cells of a base64 layer as one sequence.
WrittenText(fmt, layer) ==
    IF fmt.encoding = "csv" THEN EditorCsv(layer)
    ELSE IF FormatError(fmt) = None THEN encode_layer(fmt, <<Concat(layer)>>)
    ELSE <<"?">>

MapFile(n, fmt, layers) ==
    [tilesets |-> n, source |-> "in.tsx", format |-> fmt,
     layers |-> [k \in 1..Len(layers) |-> WrittenText(fmt, layers[k])]]

ScenarioALayer == <<(<<0, 3, 0>>), (<<5, 3, 0>>)>>

MapFiles ==
    {MapFile(n, fmt, layers) :
        n \in 0..MaxTilesets, fmt \in Formats, layers \in LayerSeqs(MapCells)}
    \cup {MapFile(1, Format("csv", "none"), <<ScenarioALayer>>)}

TilesetFiles ==
    {TilesetFile(16, 16, 10, TRUE), TilesetFile(32, 32, 2, TRUE),
     TilesetFile(16, 32, 10, TRUE), TilesetFile(16, 16, 10, FALSE)}

Unwritten == [content |-> "unwritten", bak |-> FALSE]

(***************************************************************************)
(* A run of main(): do_crushing step by step.  A RuntimeError is caught    *)
(* and printed by main (pc = "error"); any other exception ends the        *)
(* process (pc = "crashed").                                               *)
(***************************************************************************)
RuntimeErrors ==
    {"RuntimeError: only single tileset maps are supported",
     "RuntimeError: unsupported compression",
     "RuntimeError: unsupported encoding",
     "RuntimeError: tile width must match tile height"}

Init ==
    /\ pc = "get_tileset_filename"
    /\ input_doc \in MapFiles
    /\ input_map = input_doc
    /\ input_tileset = None
    /\ used_tiles = None
    /\ new_image_size = None
    /\ output_texture = None
    /\ crush_pngs \in BOOLEAN
    /\ files = [texture |-> Unwritten, tileset |-> Unwritten, map |-> Unwritten,
                crushed |-> "not run"]
    /\ error = None
    /\ unit = None

Raise(e) ==
    /\ pc' = IF e \in RuntimeErrors THEN "error" ELSE "crashed"
    /\ error' = e

\* input_tileset = Tileset(input_map.get_tileset_filename())
LoadTileset ==
    /\ pc = "get_tileset_filename"
    /\ IF TilesetFilenameError(input_map) # None
       THEN /\ Raise(TilesetFilenameError(input_map))
            /\ UNCHANGED input_tileset
       ELSE /\ input_tileset' \in TilesetFiles
            /\ pc' = "discover_used"
            /\ UNCHANGED error
    /\ UNCHANGED <<input_doc, input_map, used_tiles, new_image_size, output_texture,
                   crush_pngs, files, unit>>

\* used_tiles = input_map.discover_used()
DiscoverUsed ==
    /\ pc = "discover_used"
    /\ IF DataError(input_map) # None
       THEN /\ Raise(DataError(input_map))
            /\ UNCHANGED used_tiles
       ELSE /\ used_tiles' = discover_used(get_data(input_map))
            /\ pc' = "lookup_size"
            /\ UNCHANGED error
    /\ UNCHANGED <<input_doc, input_map, input_tileset, new_image_size, output_texture,
                   crush_pngs, files, unit>>

\* new_image_size = lookup_size(len(used_tiles), tile width, tile height)
LookupSize ==
    /\ pc = "lookup_size"
    /\ IF SizeError(input_tileset.width, input_tileset.height) # None
       THEN /\ Raise(SizeError(input_tileset.width, input_tileset.height))
            /\ UNCHANGED new_image_size
       ELSE /\ new_image_size' =
                lookup_size(Len(used_tiles), input_tileset.width, input_tileset.height)
            /\ pc' = "create_output_texture"
            /\ UNCHANGED error
    /\ UNCHANGED <<input_doc, input_map, input_tileset, used_tiles, output_texture,
                   crush_pngs, files, unit>>

\* As CreateOutputTexture, and the texture is written to its output path at
\* once ("Write output_texture.").
CreateOutputTextureAndSave ==
    /\ pc = "create_output_texture"
    /\ output_texture' = create_output_texture(input_tileset, used_tiles, new_image_size)
    /\ files' = [files EXCEPT !.texture.content = "atlas"]
    /\ pc' = "tileset_crush"
    /\ UNCHANGED <<input_doc, input_map, input_tileset, used_tiles, new_image_size,
                   crush_pngs, error, unit>>

\* output_texture = input_tileset.create_output_texture(used_tiles, new_image_size)
CreateOutputTexture ==
    /\ pc = "create_output_texture"
    /\ output_texture' = create_output_texture(input_tileset, used_tiles, new_image_size)
    /\ pc' = "tileset_crush"
    /\ UNCHANGED <<input_doc, input_map, input_tileset, used_tiles, new_image_size,
                   crush_pngs, files, error, unit>>

\* input_tileset.crush(used_tiles, new_image_size, texture filename, tileset filename)
TilesetCrush ==
    /\ pc = "tileset_crush"
    /\ IF TilesetCrushError(input_tileset) # None
       THEN /\ Raise(TilesetCrushError(input_tileset))
            /\ UNCHANGED input_tileset
       ELSE /\ input_tileset' =
                tileset_crush(input_tileset, used_tiles, new_image_size, "out.png", "out.tsx")
            /\ pc' = "map_crush"
            /\ UNCHANGED error
    /\ UNCHANGED <<input_doc, input_map, used_tiles, new_image_size, output_texture,
                   crush_pngs, files, unit>>

\* input_map.crush(used_tiles, output_tileset_filename)
MapCrush ==
    /\ pc = "map_crush"
    /\ input_map' = map_crush(input_map, used_tiles, "out.tsx")
    /\ pc' = "backup_texture"
    /\ UNCHANGED <<input_doc, input_tileset, used_tiles, new_image_size, output_texture,
                   crush_pngs, files, error, unit>>

\* backup_filename(filename): the file, if there is one, becomes filename.bak.
Backup(at, path, next) ==
    /\ pc = at
    /\ \E exists \in BOOLEAN : files' = [files EXCEPT ![path].bak = exists]
    /\ pc' = next
    /\ UNCHANGED <<input_doc, input_map, input_tileset, used_tiles, new_image_size,
                   output_texture, crush_pngs, error, unit>>

\* save(filename) of the texture, the tileset or the map.
Save(at, path, content, next) ==
    /\ pc = at
    /\ files' = [files EXCEPT ![path].content = content]
    /\ pc' = next
    /\ UNCHANGED <<input_doc, input_map, input_tileset, used_tiles, new_image_size,
                   output_texture, crush_pngs, error, unit>>

BackupTexture == Backup("backup_texture", "texture", "save_texture")

SaveTexture == Save("save_texture", "texture", "atlas", "crush_png")

\* if crush_pngs: do_crush_png(output_texture_filename).  What pngcrush
\* leaves at filename.crushed is the environment's choice.
CrushPng ==
    /\ pc = "crush_png"
    /\ IF ~crush_pngs
       THEN /\ pc' = "backup_tileset"
            /\ UNCHANGED <<files, error>>
       ELSE \E left \in {"absent", "empty", "not smaller", "smaller"} :
            IF left = "absent"
            THEN /\ Raise("FileNotFoundError: os.path.getsize(crushed_filename)")
                 /\ files' = [files EXCEPT !.crushed = left]
            ELSE IF left = "smaller"
            THEN /\ files' = [files EXCEPT !.texture.content = "crushed atlas",
                                           !.crushed = "renamed"]
                 /\ pc' = "backup_tileset"
                 /\ UNCHANGED error
            ELSE /\ files' = [files EXCEPT !.crushed = left]
                 /\ pc' = "backup_tileset"
                 /\ UNCHANGED error
    /\ UNCHANGED <<input_doc, input_map, input_tileset, used_tiles, new_image_size,
                   output_texture, crush_pngs, unit>>

BackupTileset == Backup("backup_tileset", "tileset", "save_tileset")

SaveTileset == Save("save_tileset", "tileset", "tileset", "backup_map")

BackupMap == Backup("backup_map", "map", "save_map")

SaveMap == Save("save_map", "map", "map", "done")

Next ==
    \/ LoadTileset
    \/ DiscoverUsed
    \/ LookupSize
    \/ CreateOutputTexture
    \/ TilesetCrush
    \/ MapCrush
    \/ BackupTexture
    \/ SaveTexture
    \/ CrushPng
    \/ BackupTileset
    \/ SaveTileset
    \/ BackupMap
    \/ SaveMap

Spec == Init /\ [][Next]_vars

(***************************************************************************)
(* The run: claims.                                                        *)
(***************************************************************************)
ComputeSteps ==
    {"get_tileset_filename", "discover_used", "lookup_size", "create_output_texture",
     "tileset_crush", "map_crush"}

SaveSteps ==
    {"backup_texture", "save_texture", "crush_png", "backup_tileset", "save_tileset",
     "backup_map", "save_map"}

\* The exceptions of the compute steps.
ComputeErrors ==
    RuntimeErrors \cup
    {"IndexError: list index out of range", "TypeError: remove() argument is None"}

\* Errors raised before discover_used has returned.
EarlyErrors ==
    {"RuntimeError: only single tileset maps are supported",
     "IndexError: list index out of range",
     "RuntimeError: unsupported compression",
     "RuntimeError: unsupported encoding"}

Discovered ==
    \/ pc \in (ComputeSteps \cup SaveSteps \cup {"done"})
            \ {"get_tileset_filename", "discover_used"}
    \/ pc \in {"error", "crashed"} /\ error \notin EarlyErrors

\* The tile indices in the cells of the input map.
CellValues(data) ==
    UNION {UNION {Range(data[k][y]) : y \in 1..Len(data[k])} : k \in 1..Len(data)}

\* C1: discover_used returns the distinct tile indices of the layers' cells,
\* 0 excluded, sorted ascending; 0 is never in the result.
C1_UsedTilesExcludeZero ==
    Discovered =>
        /\ used_tiles = SetToSortedSeq(CellValues(get_data(input_doc)) \ {0})
        /\ \A i \in 1..Len(used_tiles) : used_tiles[i] # 0

MapCrushed == input_map.source = "out.tsx"

Rank(v, S) == Cardinality({u \in S : u <= v})

\* C2: after Map.crush with the used tiles of the same map, a cell that
\* held 0 holds 0 and a cell that held v # 0 holds the 1-based rank of v
\* among the nonzero tile indices of the map; [[0,3,0],[5,3,0]] becomes
\* [[0,1,0],[2,1,0]].
C2_CellsRemappedToRank ==
    MapCrushed =>
        LET old == get_data(input_doc)
            new == get_data(input_map)
            nonzero == CellValues(old) \ {0}
        IN  /\ Len(new) = Len(old)
            /\ \A k \in 1..Len(old) :
                /\ Len(new[k]) = Len(old[k])
                /\ \A y \in 1..Len(old[k]) :
                    /\ Len(new[k][y]) = Len(old[k][y])
                    /\ \A x \in 1..Len(old[k][y]) :
                        new[k][y][x] = IF old[k][y][x] = 0 THEN 0
                                       ELSE Rank(old[k][y][x], nonzero)
            /\ old = <<ScenarioALayer>> => new = <<(<<(<<0, 1, 0>>), (<<2, 1, 0>>)>>)>>

FilesUntouched ==
    /\ files.texture = Unwritten
    /\ files.tileset = Unwritten
    /\ files.map = Unwritten
    /\ files.crushed = "not run"

AllZeroMap ==
    /\ input_doc.tilesets = 1
    /\ DataError(input_doc) = None
    /\ Len(input_doc.layers) >= 1
    /\ CellValues(get_data(input_doc)) = {0}

\* C6: when every cell of every layer is 0, the run fails with an
\* EmptyUsedSet error before an atlas size is computed, and writes nothing.
C6_AllZeroMapFails ==
    AllZeroMap =>
        /\ pc \in {"get_tileset_filename", "discover_used", "lookup_size", "error"}
        /\ pc = "error" => error = "RuntimeError: empty used set"
        /\ FilesUntouched

\* C8: when --pngcrush is given and pngcrush leaves no file, an empty file
\* or a file that is not smaller, the run is not aborted: the atlas stays
\* as saved and the tileset and the map are written afterwards.
C8_PoorOptimizerResultIsNotFatal ==
    (crush_pngs /\ files.crushed \in {"absent", "empty", "not smaller"}) =>
        /\ pc \in {"backup_tileset", "save_tileset", "backup_map", "save_map", "done"}
        /\ files.texture.content = "atlas"
        /\ pc = "done" => (files.tileset.content = "tileset" /\ files.map.content = "map")

====
